---- MODULE Spec2Model ----
(***************************************************************************)
(* Model of the schedule-expansion and calendar-serialization engine of    *)
(* src/src/App.jsx (Workday Excel -> iCal converter).                      *)
(*                                                                         *)
(* Texts are TLA+ strings; a character is a string of length 1.  Only      *)
(* Len, SubSeq and \o are used on them.                                    *)
(***************************************************************************)
EXTENDS Integers, Sequences, FiniteSets, TLC

VARIABLES
    foldText,   \* argument of a foldLines call
    foldOut,    \* its result, NotRun before the call returns
    escText,    \* argument of an icsEscape call
    escOut,     \* its result, NotRun before the call returns
    daysText,   \* argument of a parseDays call (a cell of the days column)
    daysOut,    \* its result, NotRun before the call returns
    timeText,   \* argument of a parseTime call (a cell of a time column)
    timeOut,    \* its result, NotRun before the call returns
    host,       \* the local time zone of the machine the page runs on
    expArgs,    \* arguments of an expandOccurrences call
    expOut,     \* its result, NotRun before the call returns
    rows,           \* React state rows: the records of the loaded file
    mapped,         \* React state mapped: field key -> column name, "" unset
    titleTemplate,  \* React state titleTemplate
    calendarName,   \* React state calendarName
    timezone,       \* React state timezone
    error,          \* React state error
    info,           \* React state info
    downloads,      \* the files handed to downloadText, in order
    lastRun         \* what the last handleGenerate did: the rows its loop
                    \* visited and its local arrays events and errors

foldVars == <<foldText, foldOut>>
escVars == <<escText, escOut>>
daysVars == <<daysText, daysOut>>
timeVars == <<timeText, timeOut>>
expVars == <<expArgs, expOut>>
appVars == <<rows, mapped, titleTemplate, calendarName, timezone, error, info,
             downloads, lastRun>>
vars == <<foldText, foldOut, escText, escOut, daysText, daysOut, timeText, timeOut, host,
          expArgs, expOut, rows, mapped, titleTemplate, calendarName,
          timezone, error, info, downloads, lastRun>>

NotRun == [run |-> FALSE, val |-> ""]
Ran(v) == [run |-> TRUE, val |-> v]

(***************************************************************************)
(* Text primitives (JavaScript String methods used by the source).         *)
(***************************************************************************)
Min(a, b) == IF a <= b THEN a ELSE b

\* s[i] with a 0-based index, "" when out of range (JS gives undefined)
CharAt(s, i) == IF i >= 0 /\ i < Len(s) THEN SubSeq(s, i + 1, i + 1) ELSE ""

\* s.slice(a, b) for 0 <= a: 0-based, end exclusive, clamped to the length
Slice(s, a, b) == SubSeq(s, a + 1, Min(b, Len(s)))

\* s.slice(a)
SliceFrom(s, a) == SubSeq(s, a + 1, Len(s))

RECURSIVE FirstMatch(_, _, _, _)
\* the first index in lo..hi where pat occurs in s, -1 if there is none
FirstMatch(s, pat, lo, hi) ==
    IF lo > hi THEN -1
    ELSE IF lo = hi THEN (IF Slice(s, lo, lo + Len(pat)) = pat THEN lo ELSE -1)
    ELSE LET mid == (lo + hi) \div 2
             left == FirstMatch(s, pat, lo, mid)
         IN  IF left # -1 THEN left ELSE FirstMatch(s, pat, mid + 1, hi)

\* s.indexOf(pat, i): first index >= i where pat occurs, -1 if none
IndexFrom(s, pat, i) == FirstMatch(s, pat, i, Len(s) - Len(pat))

RECURSIVE SplitFrom(_, _, _)
SplitFrom(s, sep, i) ==
    LET j == IndexFrom(s, sep, i)
    IN  IF j = -1 THEN <<SliceFrom(s, i)>>
        ELSE <<Slice(s, i, j)>> \o SplitFrom(s, sep, j + Len(sep))

\* s.split(sep) for a non-empty separator
Split(s, sep) == SplitFrom(s, sep, 0)

RECURSIVE Join(_, _)
\* arr.join(sep)
Join(arr, sep) ==
    IF Len(arr) = 0 THEN ""
    ELSE IF Len(arr) = 1 THEN arr[1]
    ELSE arr[1] \o sep \o Join(Tail(arr), sep)

Whitespace == {" ", "\t", "\n", "\r"}

\* s.trim()
Trim(s) ==
    LET keep == {i \in 0..(Len(s) - 1) : CharAt(s, i) \notin Whitespace}
    IN  IF keep = {} THEN ""
        ELSE Slice(s, CHOOSE i \in keep : \A k \in keep : i <= k,
                      1 + CHOOSE i \in keep : \A k \in keep : i >= k)

LowerLetters == "abcdefghijklmnopqrstuvwxyz"
UpperLetters == "ABCDEFGHIJKLMNOPQRSTUVWXYZ"
Digits == "0123456789"
CharsOf(s) == {CharAt(s, i) : i \in 0..(Len(s) - 1)}

\* the index of character c in the text s that holds it
PosIn(s, c) == CHOOSE i \in 0..(Len(s) - 1) : CharAt(s, i) = c

\* \w of a regular expression
IsWordChar(c) ==
    c \in CharsOf(LowerLetters) \cup CharsOf(UpperLetters)
             \cup CharsOf(Digits) \cup {"_"}

\* \b of a regular expression, between index p - 1 and index p of s
Boundary(s, p) == IsWordChar(CharAt(s, p - 1)) # IsWordChar(CharAt(s, p))

(***************************************************************************)
(* icsEscape: three global replacements applied one after the other.       *)
(***************************************************************************)
RECURSIVE MapRange(_, _, _, _)
\* the characters of s at indexes lo..hi-1, each c in the domain of f
\* replaced by f[c]
MapRange(s, f, lo, hi) ==
    IF hi <= lo THEN ""
    ELSE IF hi = lo + 1
         THEN LET c == CharAt(s, lo) IN IF c \in DOMAIN f THEN f[c] ELSE c
         ELSE LET mid == (lo + hi) \div 2
              IN  MapRange(s, f, lo, mid) \o MapRange(s, f, mid, hi)

\* s.replace(/<one character class>/g, f)
MapChars(s, f) == MapRange(s, f, 0, Len(s))

\* s.toUpperCase() (ASCII letters)
toUpperCase(s) ==
    MapChars(s, [c \in CharsOf(LowerLetters) |->
                    CharAt(UpperLetters, PosIn(LowerLetters, c))])

RECURSIVE ReplaceRunsRange(_, _, _, _, _)
\* the characters of s at indexes lo..hi-1, every maximal run of characters
\* of the class cls replaced by the text by
ReplaceRunsRange(s, cls, by, lo, hi) ==
    IF hi <= lo THEN ""
    ELSE IF hi = lo + 1
         THEN LET c == CharAt(s, lo)
              IN  IF c \notin cls THEN c
                  ELSE IF CharAt(s, lo - 1) \in cls THEN "" ELSE by
         ELSE LET mid == (lo + hi) \div 2
              IN  ReplaceRunsRange(s, cls, by, lo, mid)
                      \o ReplaceRunsRange(s, cls, by, mid, hi)

\* s.replace(/[<cls>]+/g, by)
ReplaceRuns(s, cls, by) == ReplaceRunsRange(s, cls, by, 0, Len(s))

\* s.replace(/[<cls>]+/g, " ")
CollapseRuns(s, cls) == ReplaceRuns(s, cls, " ")

EscBackslash(s) == MapChars(s, [c \in {"\\"} |-> "\\\\"])
EscNewline(s) == MapChars(s, [c \in {"\n"} |-> "\\n"])
EscPunct(s) == MapChars(s, [c \in {",", ";"} |-> "\\" \o c])

\* variant: the backslash pass runs last instead of first
icsEscapeBackslashLast(s) == EscBackslash(EscPunct(EscNewline(s)))

icsEscape(s) == EscPunct(EscNewline(EscBackslash(s)))

(***************************************************************************)
(* foldLines                                                               *)
(***************************************************************************)
FoldWidth == 75

RECURSIVE FoldChunksShort(_, _)
\* variant: a continuation chunk is cut to leave room for its leading space,
\* while the offset still advances by the full width
FoldChunksShort(ln, i) ==
    IF i >= Len(ln) THEN <<>>
    ELSE <<IF i = 0 THEN Slice(ln, i, i + FoldWidth)
           ELSE " " \o Slice(ln, i, i + FoldWidth - 1)>>
             \o FoldChunksShort(ln, i + FoldWidth)

RECURSIVE FoldChunks(_, _)
\* the while loop of foldLines from offset i on
FoldChunks(ln, i) ==
    IF i >= Len(ln) THEN <<>>
    ELSE LET chunk == Slice(ln, i, i + FoldWidth)
         IN  <<IF i = 0 THEN chunk ELSE " " \o chunk>>
                 \o FoldChunks(ln, i + FoldWidth)

\* the physical lines pushed for one logical line
FoldLine(ln) == IF Len(ln) <= FoldWidth THEN <<ln>> ELSE FoldChunks(ln, 0)

RECURSIVE FoldAll(_)
FoldAll(lines) ==
    IF Len(lines) = 0 THEN <<>>
    ELSE FoldLine(Head(lines)) \o FoldAll(Tail(lines))

foldLines(text) == Join(FoldAll(Split(text, "\n")), "\n")

(***************************************************************************)
(* parseDays                                                               *)
(***************************************************************************)
\* one entry of the list rep: the literal text of the pattern, whether an
\* optional S follows it (S?), whether it opens and closes with \b, and the
\* token that replaces the match
Rule(lit, optS, lb, rb, tok) ==
    [lit |-> lit, optS |-> optS, lb |-> lb, rb |-> rb, tok |-> tok]

rep == <<
    Rule("THURSDAY", TRUE, FALSE, FALSE, "R"), Rule("THUR", TRUE, FALSE, TRUE, "R"),
    Rule("THU", FALSE, FALSE, TRUE, "R"), Rule("TH", FALSE, TRUE, TRUE, "R"),
    Rule("TUESDAY", TRUE, FALSE, FALSE, "TU"), Rule("TUE", TRUE, FALSE, TRUE, "TU"),
    Rule("TUE", FALSE, TRUE, TRUE, "TU"), Rule("TU", FALSE, TRUE, TRUE, "TU"),
    Rule("MONDAY", TRUE, FALSE, FALSE, "MO"), Rule("MON", FALSE, TRUE, TRUE, "MO"),
    Rule("MO", FALSE, TRUE, TRUE, "MO"),
    Rule("WEDNESDAY", TRUE, FALSE, FALSE, "WE"), Rule("WED", FALSE, TRUE, TRUE, "WE"),
    Rule("WE", FALSE, TRUE, TRUE, "WE"),
    Rule("FRIDAY", TRUE, FALSE, FALSE, "FR"), Rule("FRI", FALSE, TRUE, TRUE, "FR"),
    Rule("FR", FALSE, TRUE, TRUE, "FR"),
    Rule("SATURDAY", TRUE, FALSE, FALSE, "SA"), Rule("SAT", FALSE, TRUE, TRUE, "SA"),
    Rule("SA", FALSE, TRUE, TRUE, "SA"),
    Rule("SUNDAY", TRUE, FALSE, FALSE, "SU"), Rule("SUN", FALSE, TRUE, TRUE, "SU"),
    Rule("SU", FALSE, TRUE, TRUE, "SU") >>

\* the length of the match of rule r that starts at index i of s, -1 if the
\* pattern does not match there (S? is greedy and given back if \b then fails)
MatchLen(s, r, i) ==
    LET n == Len(r.lit)
    IN  IF Slice(s, i, i + n) # r.lit \/ (r.lb /\ ~Boundary(s, i)) THEN -1
        ELSE IF r.optS /\ CharAt(s, i + n) = "S"
                       /\ (r.rb => Boundary(s, i + n + 1)) THEN n + 1
        ELSE IF r.rb => Boundary(s, i + n) THEN n
        ELSE -1

\* s.replace(pattern, token) without the g flag: the leftmost match only
ReplaceFirst(s, r) ==
    LET hits == {i \in 0..(Len(s) - 1) : MatchLen(s, r, i) # -1}
    IN  IF hits = {} THEN s
        ELSE LET i == CHOOSE j \in hits : \A k \in hits : j <= k
             IN  Slice(s, 0, i) \o r.tok \o SliceFrom(s, i + MatchLen(s, r, i))

RECURSIVE ApplyRules(_, _)
\* for (const [pattern, token] of rep) s = s.replace(pattern, token), from
\* rule number k on
ApplyRules(s, k) ==
    IF k > Len(rep) THEN s
    ELSE LET t == ReplaceFirst(s, rep[k])
         IN  IF t = s THEN ApplyRules(s, k + 1) ELSE ApplyRules(t, k + 1)

Separators == {",", "&", "/", "\\", "|"}

\* the text after the names are normalized and the separators replaced
NormalizeDays(s) ==
    Trim(CollapseRuns(CollapseRuns(ApplyRules(s, 1), Separators), Whitespace))

RECURSIVE ScanCompact(_, _)
\* the tokens the scan of a text without a space adds from index i on
ScanCompact(s, i) ==
    IF i >= Len(s) THEN {}
    ELSE LET c == CharAt(s, i)
             two == Slice(s, i, i + 2)
         IN  IF c = "T" /\ two = "TU" THEN {"TU"} \cup ScanCompact(s, i + 2)
             ELSE IF c = "R" THEN {"R"} \cup ScanCompact(s, i + 1)
             ELSE IF c = "M" THEN {"MO"} \cup ScanCompact(s, i + 1)
             ELSE IF c = "W" THEN {"WE"} \cup ScanCompact(s, i + 1)
             ELSE IF c = "F" THEN {"FR"} \cup ScanCompact(s, i + 1)
             ELSE IF c = "S" /\ two = "SA" THEN {"SA"} \cup ScanCompact(s, i + 2)
             ELSE IF c = "S" /\ two = "SU" THEN {"SU"} \cup ScanCompact(s, i + 2)
             ELSE ScanCompact(s, i + 1)

\* the renaming of one token of the space-separated form
MapToken(tok) ==
    IF tok = "M" THEN "MO"
    ELSE IF tok = "T" THEN "TU"
    ELSE IF tok = "W" THEN "WE"
    ELSE IF tok = "TH" THEN "R"
    ELSE IF tok = "F" THEN "FR"
    ELSE tok

\* the tokens of the space-separated form
SplitTokens(s) ==
    LET parts == Split(s, " ")
    IN  {MapToken(Trim(parts[k])) : k \in {j \in 1..Len(parts) : Trim(parts[j]) # ""}}

\* the switch that turns the tokens into weekday numbers (Sunday = 0)
DayNumbers(tokens) ==
    LET number == [t \in {"MO", "TU", "WE", "R", "FR", "SA", "SU"} |->
                      CASE t = "MO" -> 1 [] t = "TU" -> 2 [] t = "WE" -> 3
                        [] t = "R" -> 4 [] t = "FR" -> 5 [] t = "SA" -> 6
                        [] t = "SU" -> 0]
    IN  {number[t] : t \in tokens \cap DOMAIN number}

\* parseDays of a text cell (a missing cell reads as the empty text)
parseDays(val) ==
    IF Trim(val) = "" THEN {}
    ELSE LET s == NormalizeDays(toUpperCase(Trim(val)))
         IN  DayNumbers(IF IndexFrom(s, " ", 0) = -1 THEN ScanCompact(s, 0)
                        ELSE SplitTokens(s))

(***************************************************************************)
(* Date objects.  A Date is held as its local wall-clock reading in the    *)
(* host's time zone: day is the number of the local calendar day (days     *)
(* since 1970-01-01) and sec the seconds since local midnight.  Instants   *)
(* of one zone are ordered as their readings are.                          *)
(*                                                                         *)
(* host.offset is the zone's UTC offset in hours; host.gapDays are the     *)
(* local days on which daylight saving time starts at midnight, so that    *)
(* the wall-clock times 00:00:00..00:59:59 of those days do not exist.     *)
(***************************************************************************)
SecPerHour == 3600
SecPerDay == 86400

\* day number of the civil date y-m-d, m in 1..12 (proleptic Gregorian)
DaysFromCivil(y, m, d) ==
    LET yy == IF m <= 2 THEN y - 1 ELSE y
        era == yy \div 400
        yoe == yy - era * 400
        mp == IF m > 2 THEN m - 3 ELSE m + 9
        doy == (153 * mp + 2) \div 5 + d - 1
        doe == yoe * 365 + yoe \div 4 - yoe \div 100 + doy
    IN  era * 146097 + doe - 719468

\* the civil date of a day number
CivilFromDays(z) ==
    LET zz == z + 719468
        era == zz \div 146097
        doe == zz - era * 146097
        yoe == (doe - doe \div 1460 + doe \div 36524 - doe \div 146096) \div 365
        doy == doe - (365 * yoe + yoe \div 4 - yoe \div 100)
        mp == (5 * doy + 2) \div 153
        m == IF mp < 10 THEN mp + 3 ELSE mp - 9
    IN  [y |-> yoe + era * 400 + (IF m <= 2 THEN 1 ELSE 0),
         m |-> m,
         d |-> doy - (153 * mp + 2) \div 5 + 1]

getFullYear(dt) == CivilFromDays(dt.day).y
\* 0-based month, as getMonth gives it
getMonth(dt) == CivilFromDays(dt.day).m - 1
getDate(dt) == CivilFromDays(dt.day).d
\* 1970-01-01 was a Thursday; Sunday = 0
getDay(dt) == (dt.day + 4) % 7
getHours(dt) == dt.sec \div SecPerHour
getMinutes(dt) == (dt.sec % SecPerHour) \div 60
getSeconds(dt) == dt.sec % 60

\* the Date of a local wall-clock reading; a reading the clock skips stands
\* for the instant one hour later
Local(day, sec) ==
    LET d == day + sec \div SecPerDay
        t == sec % SecPerDay
    IN  IF d \in host.gapDays /\ t < SecPerHour
        THEN [day |-> d, sec |-> t + SecPerHour]
        ELSE [day |-> d, sec |-> t]

\* new Date(year, monthIndex, date, h, min, sec): fields out of range carry
\* over
NewDate(year, monthIndex, date, h, min, sec) ==
    Local(DaysFromCivil(year + monthIndex \div 12, (monthIndex % 12) + 1, 1)
              + date - 1,
          h * SecPerHour + min * 60 + sec)

\* new Date(x.getFullYear(), x.getMonth(), x.getDate())
LocalMidnightOf(dt) == NewDate(getFullYear(dt), getMonth(dt), getDate(dt), 0, 0, 0)

\* d.setDate(d.getDate() + 1): the next calendar day at the same wall-clock
\* time
NextDay(dt) == Local(dt.day + 1, dt.sec)

\* a <= b on Dates
DateLeq(a, b) == a.day < b.day \/ (a.day = b.day /\ a.sec <= b.sec)

\* the Date of the instant 00:00:00 UTC of a day number
FromUTCMidnight(day) ==
    LET t == day * 24 + host.offset
    IN  [day |-> t \div 24, sec |-> (t % 24) * SecPerHour]

Null == [null |-> TRUE]

(***************************************************************************)
(* parseDate, parseTime.  A cell is a text; a cell that is missing reads   *)
(* as the empty text, which every parser treats like undefined.            *)
(***************************************************************************)
IsDigit(c) == c \in CharsOf(Digits)
AllDigits(s) == \A i \in 0..(Len(s) - 1) : IsDigit(CharAt(s, i))

RECURSIVE Number(_)
\* Number(s) of a text of decimal digits
Number(s) ==
    IF Len(s) = 0 THEN 0
    ELSE 10 * Number(Slice(s, 0, Len(s) - 1)) + PosIn(Digits, CharAt(s, Len(s) - 1))

\* the days of month m (1..12) of year y
DaysInMonth(y, m) == DaysFromCivil(y + m \div 12, (m % 12) + 1, 1) - DaysFromCivil(y, m, 1)

\* the Date of a text YYYY-MM-DD or YYYY/MM/DD whose fields are the numbers
\* y, m, d and whose separator is sep: Null unless y-m-d is a calendar date;
\* the form with dashes is the instant 00:00 UTC of that day, the form with
\* slashes is local midnight
DateOfFields(y, m, d, sep) ==
    IF m \in 1..12 /\ d >= 1 /\ d <= DaysInMonth(y, m)
    THEN (IF sep = "-" THEN FromUTCMidnight(DaysFromCivil(y, m, d))
          ELSE Local(DaysFromCivil(y, m, d), 0))
    ELSE Null

\* new Date(s) of a text s: the texts of the two forms above are dates, any
\* other text the model draws is not (Null stands for the invalid Date)
DateOfText(s) ==
    IF /\ Len(s) = 10
       /\ AllDigits(Slice(s, 0, 4) \o Slice(s, 5, 7) \o Slice(s, 8, 10))
       /\ Slice(s, 4, 5) \o Slice(s, 7, 8) \in {"--", "//"}
    THEN DateOfFields(Number(Slice(s, 0, 4)), Number(Slice(s, 5, 7)),
                      Number(Slice(s, 8, 10)), CharAt(s, 4))
    ELSE Null

\* the groups of /^(\d{4})[-\/]?(\d{2})[-\/]?(\d{2})$/ in s when the first
\* separator takes sep1 characters and the second sep2, or Null
NumericGroups(s, sep1, sep2) ==
    IF Len(s) = 8 + sep1 + sep2
           /\ AllDigits(Slice(s, 0, 4) \o Slice(s, 4 + sep1, 6 + sep1)
                            \o Slice(s, 6 + sep1 + sep2, 8 + sep1 + sep2))
    THEN [y |-> Slice(s, 0, 4), mo |-> Slice(s, 4 + sep1, 6 + sep1),
          d |-> Slice(s, 6 + sep1 + sep2, 8 + sep1 + sep2)]
    ELSE Null

IsDateSeparator(c) == c \in {"-", "/"}

\* s.match(/^(\d{4})[-\/]?(\d{2})[-\/]?(\d{2})$/): the three groups, or Null
MatchNumericDate(s) ==
    IF IsDateSeparator(CharAt(s, 4))
    THEN NumericGroups(s, 1, IF IsDateSeparator(CharAt(s, 7)) THEN 1 ELSE 0)
    ELSE NumericGroups(s, 0, IF IsDateSeparator(CharAt(s, 6)) THEN 1 ELSE 0)

\* lines 370-374: the Date of the groups m of the numeric pattern
DateOfMatch(m) ==
    IF m = Null THEN Null
    ELSE NewDate(Number(m.y), Number(m.mo) - 1, Number(m.d), 0, 0, 0)

\* lines 367-374, with try1 the value of new Date(s)
DateOfTrimmed(s, try1) ==
    IF try1 # Null THEN LocalMidnightOf(try1) ELSE DateOfMatch(MatchNumericDate(s))

\* lines 364-374, with s the trimmed text
ParseTrimmedDate(s) == IF s = "" THEN Null ELSE DateOfTrimmed(s, DateOfText(s))

parseDate(val) == ParseTrimmedDate(Trim(val))

\* the number of digits s holds from index i on
DigitRun(s, i) ==
    LET stops == {j \in i..Len(s) : ~IsDigit(CharAt(s, j))}
    IN  (CHOOSE j \in stops : \A k \in stops : j <= k) - i

\* the index of the first character of s from index i on that is no
\* whitespace (the length of s when there is none)
SkipSpace(s, i) ==
    LET stops == {j \in i..Len(s) : CharAt(s, j) \notin Whitespace}
    IN  CHOOSE j \in stops : \A k \in stops : j <= k

\* one (?::(\d{2}))? at index i of s: the group ("" when it takes no part),
\* the index after it, and whether the pattern can still match
ColonGroup(s, i) ==
    IF CharAt(s, i) # ":" THEN [ok |-> TRUE, text |-> "", next |-> i]
    ELSE [ok |-> Len(Slice(s, i + 1, i + 3)) = 2 /\ AllDigits(Slice(s, i + 1, i + 3)),
          text |-> Slice(s, i + 1, i + 3), next |-> i + 3]

\* \s*(AM|PM)?$ at index i of s: the group, and whether the pattern matches
MeridiemGroup(s, i) ==
    IF i = Len(s) THEN [ok |-> TRUE, text |-> ""]
    ELSE [ok |-> i + 2 = Len(s) /\ SliceFrom(s, i) \in {"AM", "PM"},
          text |-> SliceFrom(s, i)]

TimeGroups(h, min, sec, ampm) ==
    IF min.ok /\ sec.ok /\ ampm.ok
    THEN [h |-> h, min |-> min.text, sec |-> sec.text, ampm |-> ampm.text]
    ELSE Null

\* the pattern after the hour and both colon groups
TimeAfterSeconds(s, h, min, sec) ==
    TimeGroups(h, min, sec, MeridiemGroup(s, SkipSpace(s, sec.next)))

\* the pattern after the hour and the first colon group
TimeAfterMinutes(s, h, min) ==
    IF min.text = "" THEN TimeGroups(h, min, min, MeridiemGroup(s, SkipSpace(s, min.next)))
    ELSE TimeAfterSeconds(s, h, min, ColonGroup(s, min.next))

\* s.match(/^(\d{1,2})(?::(\d{2}))?(?::(\d{2}))?\s*(AM|PM)?$/) for an hour
\* of nh digits: the four groups, or Null
TimeAfterHour(s, nh) ==
    IF nh \notin 1..2 THEN Null
    ELSE TimeAfterMinutes(s, Slice(s, 0, nh), ColonGroup(s, nh))

MatchTime(s) == TimeAfterHour(s, DigitRun(s, 0))

\* the 12-hour correction of lines 390-391
HourOf(h, ampm) ==
    IF ampm = "AM" /\ h = 12 THEN 0
    ELSE IF ampm = "PM" /\ h < 12 THEN h + 12
    ELSE h

\* lines 385-393 for the match m, Null when there is none
TimeOfMatch(m) ==
    IF m = Null THEN Null
    ELSE [h |-> HourOf(Number(m.h), m.ampm), min |-> Number(m.min),
          sec |-> Number(m.sec)]

\* parseTime; the second pattern of the source matches nothing the first
\* one does not
parseTime(val) ==
    IF Trim(val) = "" THEN Null ELSE TimeOfMatch(MatchTime(toUpperCase(Trim(val))))

(***************************************************************************)
(* expandOccurrences                                                       *)
(***************************************************************************)
RECURSIVE ExpandLoop(_, _, _)
\* the while loop of expandOccurrences with the cursor at d
ExpandLoop(d, end, daySet) ==
    IF ~DateLeq(d, end) THEN <<>>
    ELSE (IF getDay(d) \in daySet THEN <<d>> ELSE <<>>)
             \o ExpandLoop(NextDay(d), end, daySet)

expandOccurrences(startDate, endDate, daySet) ==
    IF startDate = Null \/ endDate = Null THEN <<>>
    ELSE ExpandLoop(LocalMidnightOf(startDate), LocalMidnightOf(endDate), daySet)

(***************************************************************************)
(* combineDateTime and the serializer.                                     *)
(***************************************************************************)
combineDateTime(date, t) ==
    NewDate(getFullYear(date), getMonth(date), getDate(date), t.h, t.min, t.sec)

RECURSIVE NumberText(_)
\* String(n) of a natural number
NumberText(n) ==
    IF n < 10 THEN CharAt(Digits, n)
    ELSE NumberText(n \div 10) \o CharAt(Digits, n % 10)

\* String(n).padStart(2, "0")
pad(n) == IF n < 10 THEN "0" \o NumberText(n) ELSE NumberText(n)

icsDateTimeLocal(dt) ==
    NumberText(getFullYear(dt)) \o pad(getMonth(dt) + 1) \o pad(getDate(dt))
        \o "T" \o pad(getHours(dt)) \o pad(getMinutes(dt)) \o pad(getSeconds(dt))

\* icsDateTimeUTC of an instant given by its UTC reading
icsDateTimeUTC(utc) == icsDateTimeLocal(utc) \o "Z"

\* the text of one event before folding; uid is the text that
\* Math.random().toString(36).slice(2) gave
EventText(ev, uid, now) ==
    "BEGIN:VEVENT\n"
        \o "UID:" \o uid \o "@gisttools.local\n"
        \o "DTSTAMP:" \o icsDateTimeUTC(now) \o "\n"
        \o "DTSTART:" \o icsDateTimeLocal(ev.dtStart) \o "\n"
        \o "DTEND:" \o icsDateTimeLocal(ev.dtEnd) \o "\n"
        \o (IF ev.summary # "" THEN "SUMMARY:" \o icsEscape(ev.summary) \o "\n" ELSE "")
        \o (IF ev.location # "" THEN "LOCATION:" \o icsEscape(ev.location) \o "\n" ELSE "")
        \o (IF ev.description # ""
            THEN "DESCRIPTION:" \o icsEscape(ev.description) \o "\n" ELSE "")
        \o "END:VEVENT"

IcsHeader(calName, tzHint) ==
    "BEGIN:VCALENDAR\n" \o "VERSION:2.0\n" \o "CALSCALE:GREGORIAN\n"
        \o "PRODID:-//GistTools//Workday Excel to iCal//EN\n"
        \o (IF calName # "" THEN "X-WR-CALNAME:" \o icsEscape(calName) \o "\n" ELSE "")
        \o (IF tzHint # "" THEN "X-WR-TIMEZONE:" \o icsEscape(tzHint) \o "\n" ELSE "")

\* variant: an event equal to the one before it is written once
RECURSIVE IcsEventsDedup(_, _, _, _)
IcsEventsDedup(events, uids, now, k) ==
    IF k > Len(events) THEN ""
    ELSE (IF k > 1 /\ events[k] = events[k - 1] THEN ""
          ELSE foldLines(EventText(events[k], uids[k], now)) \o "\n")
             \o IcsEventsDedup(events, uids, now, k + 1)

RECURSIVE IcsEvents(_, _, _, _)
\* the text the for loop of buildICS appends for the events from number k on;
\* uids[k] is the random text drawn for event k
IcsEvents(events, uids, now, k) ==
    IF k > Len(events) THEN ""
    ELSE foldLines(EventText(events[k], uids[k], now)) \o "\n"
             \o IcsEvents(events, uids, now, k + 1)

\* buildICS, with the values of Math.random and of new Date() it reads
buildICS(events, calName, tzHint, uids, now) ==
    IcsHeader(calName, tzHint) \o IcsEvents(events, uids, now, 1) \o "END:VCALENDAR\n"

(***************************************************************************)
(* handleGenerate                                                          *)
(***************************************************************************)
\* variant: the end time is not among the keys that are checked
reqWithoutEndTime == <<"startDateField", "endDateField", "startTimeField", "daysField">>

req == <<"startDateField", "endDateField", "startTimeField", "endTimeField",
         "daysField">>

MappingKeys ==
    {"titleField", "courseField", "componentField", "sectionField",
     "startDateField", "endDateField", "startTimeField", "endTimeField",
     "daysField", "locationField", "descField"}

labelForKey(k) ==
    CASE k = "titleField" -> "Title field"
      [] k = "courseField" -> "Course"
      [] k = "componentField" -> "Component"
      [] k = "sectionField" -> "Section"
      [] k = "startDateField" -> "Start date"
      [] k = "endDateField" -> "End date"
      [] k = "startTimeField" -> "Start time"
      [] k = "endTimeField" -> "End time"
      [] k = "daysField" -> "Days pattern"
      [] k = "locationField" -> "Location"
      [] k = "descField" -> "Description"
      [] OTHER -> k

\* String(row[column] ?? ""): a column the row does not have, and the unset
\* column "", read as the empty text
Cell(row, column) == IF column \in DOMAIN row THEN row[column] ELSE ""

RECURSIVE GetSubstitution(_, _, _, _, _)
\* the text a replacement string stands for, from index i on: $$ is a dollar
\* sign, $& the matched text, $` and $' the text before and after the match
GetSubstitution(replacement, matched, before, after, i) ==
    IF i >= Len(replacement) THEN ""
    ELSE LET c == CharAt(replacement, i)
             n == CharAt(replacement, i + 1)
         IN  IF c = "$" /\ n \in {"$", "&", "`", "'"}
             THEN (CASE n = "$" -> "$" [] n = "&" -> matched
                     [] n = "`" -> before [] n = "'" -> after)
                      \o GetSubstitution(replacement, matched, before, after, i + 2)
             ELSE c \o GetSubstitution(replacement, matched, before, after, i + 1)

RECURSIVE ReplaceAllFrom(_, _, _, _)
ReplaceAllFrom(s, pattern, replacement, i) ==
    LET j == IndexFrom(s, pattern, i)
    IN  IF j = -1 THEN SliceFrom(s, i)
        ELSE Slice(s, i, j)
                 \o GetSubstitution(replacement, pattern, Slice(s, 0, j),
                                     SliceFrom(s, j + Len(pattern)), 0)
                 \o ReplaceAllFrom(s, pattern, replacement, j + Len(pattern))

\* s.replaceAll(pattern, replacement) for a non-empty text pattern
replaceAll(s, pattern, replacement) == ReplaceAllFrom(s, pattern, replacement, 0)

\* the title built from the template (the else branch of "Build title")
TemplateTitle(row, m, template) ==
    Trim(CollapseRuns(
        replaceAll(replaceAll(replaceAll(template,
                                         "{Course}", Trim(Cell(row, m["courseField"]))),
                              "{Component}", Trim(Cell(row, m["componentField"]))),
                   "{Section}", Trim(Cell(row, m["sectionField"]))),
        Whitespace))

\* line 170
OrClass(summary) == IF summary = "" THEN "Class" ELSE summary

\* the summary of the events of a row
Summary(row, m, template) ==
    OrClass(IF m["titleField"] # "" THEN Trim(Cell(row, m["titleField"]))
            ELSE TemplateTitle(row, m, template))

\* lines 172-173: the trimmed cell of the column mapped to key, "" when the
\* key is unset
OptionalCell(row, m, key) == IF m[key] # "" THEN Trim(Cell(row, m[key])) ELSE ""

\* lines 176-180: one event for every occurrence
PushEvents(occurrences, startTime, endTime, summary, location, description) ==
    [i \in 1..Len(occurrences) |->
        [summary |-> summary, location |-> location, description |-> description,
         dtStart |-> combineDateTime(occurrences[i], startTime),
         dtEnd |-> combineDateTime(occurrences[i], endTime)]]

RowError(idx) ==
    [idx |-> idx + 1, error |-> "Could not parse one of date, time, or days"]

\* lines 154-183 for the row at index idx, with the five values parsed from
\* it: the events pushed and the errors pushed
ParsedRow(startDate, endDate, startTime, endTime, days, row, m, template, idx) ==
    IF \/ startDate = Null \/ endDate = Null
       \/ startTime = Null \/ endTime = Null \/ days = {}
    THEN [events |-> <<>>, errors |-> <<RowError(idx)>>]
    ELSE [events |-> PushEvents(expandOccurrences(startDate, endDate, days),
                                startTime, endTime, Summary(row, m, template),
                                OptionalCell(row, m, "locationField"),
                                OptionalCell(row, m, "descField")),
          errors |-> <<>>]

\* the callback of rows.forEach for the row at index idx
RowCallback(row, m, template, idx) ==
    ParsedRow(parseDate(Cell(row, m["startDateField"])),
              parseDate(Cell(row, m["endDateField"])),
              parseTime(Cell(row, m["startTimeField"])),
              parseTime(Cell(row, m["endTimeField"])),
              parseDays(Cell(row, m["daysField"])),
              row, m, template, idx)

\* variant: what the later rows pushed is dropped when the row failed
PushedThenUnlessFailed(one, rest, idx) ==
    IF one.errors # <<>>
    THEN [events |-> one.events, errors |-> one.errors,
          rowOf |-> [i \in 1..Len(one.events) |-> idx + 1]]
    ELSE [events |-> one.events \o rest.events,
          errors |-> one.errors \o rest.errors,
          rowOf |-> [i \in 1..Len(one.events) |-> idx + 1] \o rest.rowOf]

\* what the row at index idx pushed, followed by what the later rows pushed;
\* rowOf is the 1-based position of the row each event is from
PushedThen(one, rest, idx) ==
    [events |-> one.events \o rest.events,
     errors |-> one.errors \o rest.errors,
     rowOf |-> [i \in 1..Len(one.events) |-> idx + 1] \o rest.rowOf]

NothingPushed == [events |-> <<>>, errors |-> <<>>, rowOf |-> <<>>]

RECURSIVE ForEachRow(_, _, _, _)
\* rows.forEach from the 0-based index idx on: the events and the errors it
\* appends
ForEachRow(rs, m, template, idx) ==
    IF idx >= Len(rs) THEN NothingPushed
    ELSE PushedThen(RowCallback(rs[idx + 1], m, template, idx),
                    ForEachRow(rs, m, template, idx + 1), idx)

\* s.toLowerCase() (ASCII letters)
toLowerCase(s) ==
    MapChars(s, [c \in CharsOf(UpperLetters) |->
                    CharAt(LowerLetters, PosIn(UpperLetters, c))])

\* s.replace(/^-|-$/g, "")
StripHyphens(s) ==
    Slice(s, IF CharAt(s, 0) = "-" THEN 1 ELSE 0,
          IF Len(s) > 1 /\ CharAt(s, Len(s) - 1) = "-" THEN Len(s) - 1 ELSE Len(s))

sanitizeFileName(s) ==
    toLowerCase(StripHyphens(ReplaceRuns(
        ReplaceRuns(s, CharsOf(s) \ (CharsOf(LowerLetters) \cup CharsOf(UpperLetters)
                                        \cup CharsOf(Digits) \cup {"-", "_"}),
                    "-"),
        {"-"}, "-")))

\* the required keys that are unset, as positions in req
MissingRequired(m) == {k \in 1..Len(req) : m[req[k]] = ""}

NoRun == [ran |-> FALSE, parsed |-> 0, events |-> <<>>, errors |-> <<>>,
          rowOf |-> <<>>]

\* the run recorded for a loop over n rows that pushed r
RunOf(n, r) ==
    [ran |-> TRUE, parsed |-> n, events |-> r.events, errors |-> r.errors,
     rowOf |-> r.rowOf]

\* line 190
InfoText(r) ==
    "Generated " \o NumberText(Len(r.events)) \o " events. "
        \o (IF Len(r.errors) # 0
            THEN "Rows with issues: " \o NumberText(Len(r.errors))
            ELSE "All rows parsed.")

\* lines 186-193, with r what rows.forEach pushed
AfterForEach(r, uids, now) ==
    IF Len(r.events) = 0
    THEN /\ error' = "No events generated. Check mappings and data."
         /\ UNCHANGED <<info, downloads>>
    ELSE /\ downloads' =
                Append(downloads,
                       [text |-> buildICS(r.events, calendarName, timezone,
                                          [k \in 1..Len(r.events) |->
                                              uids[((k - 1) % Len(uids)) + 1]],
                                          now),
                        name |-> sanitizeFileName(IF calendarName # ""
                                                  THEN calendarName
                                                  ELSE "schedule") \o ".ics"])
         /\ info' = InfoText(r)
         /\ UNCHANGED error

\* lines 138-193, with missing the required keys that are unset and r what
\* rows.forEach pushes
GenerateWith(missing, r, uids, now) ==
    IF missing # {}
    THEN /\ error' = "Missing required mapping: "
                         \o labelForKey(req[CHOOSE k \in missing :
                                                \A j \in missing : k <= j])
         /\ lastRun' = RunOf(0, NothingPushed)
         /\ UNCHANGED <<info, downloads>>
    ELSE /\ lastRun' = RunOf(Len(rows), r)
         /\ AfterForEach(r, uids, now)

\* handleGenerate; uids[k] is what Math.random().toString(36).slice(2) gives
\* for event k and now the UTC reading of new Date() in buildICS
handleGenerate(uids, now) ==
    GenerateWith(MissingRequired(mapped), ForEachRow(rows, mapped, titleTemplate, 0),
                 uids, now)

(***************************************************************************)
(* Calls of the pure text functions on bounded inputs.                     *)
(***************************************************************************)
MaxLineLen == 152
MaxEscLen == 4

RECURSIVE Cyclic(_, _)
\* the first n characters of p repeated for ever
Cyclic(p, n) ==
    IF n <= Len(p) THEN SubSeq(p, 1, n) ELSE Cyclic(p \o p, n)

FoldPatterns == {"a", " ab", "x;y z"}
FoldSecondLines ==
    {Cyclic("b ", m) : m \in {0, 1, FoldWidth, FoldWidth + 1, 2 * FoldWidth}}
FoldInputs ==
    LET first == {Cyclic(p, n) : p \in FoldPatterns, n \in 0..MaxLineLen}
    IN  first \cup {a \o "\n" \o b : a \in first, b \in FoldSecondLines}

EscAlphabet == {"\\", ",", ";", "\n", "n", "a"}
RECURSIVE TextsUpTo(_, _)
TextsUpTo(alphabet, n) ==
    IF n = 0 THEN {""}
    ELSE LET shorter == TextsUpTo(alphabet, n - 1)
         IN  shorter \cup {t \o c : t \in shorter, c \in alphabet}
EscInputs == TextsUpTo(EscAlphabet, MaxEscLen)

DaysAlphabet == {"M", "T", "u", "h", "R", " ", "S", "a", ","}
MaxDaysLen == 3
DaysExamples ==
    {"MWF", "mwf", "M W F", "Mon Wed Fri", "Monday, Wednesday, Friday",
     "TuTh", "T R", "TTh", "MTWRF", "Tue/Thu", "Tues & Thurs", "Xyz",
     "Sat Sun", "SaSu", "  mon|wed\\fri "}
\* the written forms of each weekday (Sunday = 0), in capitals
WeekdayForms ==
    <<{"MONDAY", "MON", "MO"}, {"TUESDAY", "TUE", "TU"}, {"WEDNESDAY", "WED", "WE"},
      {"THURSDAY", "THU", "TH"}, {"FRIDAY", "FRI", "FR"}, {"SATURDAY", "SAT", "SA"},
      {"SUNDAY", "SUN", "SU"}>>
\* each form in capitals, in small letters and with a capital initial
WeekdayTexts ==
    UNION {{f, toLowerCase(f), Slice(f, 0, 1) \o toLowerCase(SliceFrom(f, 1))} :
              f \in UNION {WeekdayForms[d] : d \in 1..7}}
DaysInputs == DaysExamples \cup WeekdayTexts \cup TextsUpTo(DaysAlphabet, MaxDaysLen)

\* the zones the page is run in: their UTC offset in hours and the days whose
\* first hour the clock skips (America/Sao_Paulo began daylight saving time
\* at 00:00 on 2018-11-04)
Hosts ==
    {[name |-> "America/Vancouver", offset |-> -8, gapDays |-> {}],
     [name |-> "UTC", offset |-> 0, gapDays |-> {}],
     [name |-> "Asia/Tokyo", offset |-> 9, gapDays |-> {}],
     [name |-> "America/Sao_Paulo", offset |-> -3,
      gapDays |-> {DaysFromCivil(2018, 11, 4)}]}

MaxSpan == 8
\* the first day of the window the expanded ranges are drawn from
ExpandFirstDay == DaysFromCivil(2018, 11, 1)
ExpandDays == ExpandFirstDay..(ExpandFirstDay + MaxSpan)
ExpandInputs ==
    [startDate : {Local(d, 0) : d \in ExpandDays},
     endDate : {Local(d, 0) : d \in ExpandDays},
     daySet : SUBSET (0..6)]

\* the columns of the loaded file
Row(course, component, section, startDate, endDate, startTime, endTime, days, location, title) ==
    "Course" :> course @@ "Component" :> component @@ "Section" :> section
        @@ "Start Date" :> startDate @@ "End Date" :> endDate
        @@ "Start Time" :> startTime @@ "End Time" :> endTime @@ "Days" :> days
        @@ "Location" :> location @@ "Title" :> title

\* what guessInitialMapping gives for these columns
GuessedMapping ==
    [k \in MappingKeys |->
        CASE k = "titleField" -> "Title"
          [] k = "courseField" -> "Course"
          [] k = "componentField" -> "Component"
          [] k = "sectionField" -> "Section"
          [] k = "startDateField" -> "Start Date"
          [] k = "endDateField" -> "End Date"
          [] k = "startTimeField" -> "Start Time"
          [] k = "endTimeField" -> "End Time"
          [] k = "daysField" -> "Days"
          [] k = "locationField" -> "Location"
          [] k = "descField" -> ""]

RowMWF ==
    Row("CS 101", "LEC", "001", "2025-01-06", "2025-01-17", "10:00 AM", "10:50 AM",
        "MWF", "", "")
RowXyz ==
    Row("CS 110", "LAB", "L1A", "2025-01-06", "2025-01-17", "9:00 AM", "11:00 AM",
        "Xyz", "ICCS 014", "Lab")
RowNoDate ==
    Row("CS 121", "LEC", "002", "TBA", "2025-01-17", "10:00 AM", "10:50 AM",
        "MWF", "", "")
RowNoTime ==
    Row("CS 210", "LEC", "003", "20250106", "20250110", "13:00", "", "T R", "", "")
RowBraces ==
    Row("X{Section}", "SEM", "  9 ", "20250107", "2025/01/09", "14:00", "15:20:30",
        "Tue/Thu", "Room 1, West; door B", " Seminar ")
RowOneDay ==
    Row("MATH 200", "TUT", "T1", "20250108", "20250108", "8 PM", "21:00",
        "Wednesday",
        "Mathematics Building, room 100, 1984 Mathematics Road, University Campus, Vancouver",
        "")
RowBackwards ==
    Row("MATH 200", "TUT", "T2", "20250110", "20250106", "8 AM", "9 AM", "mwf", "", "")

RowNoEndDate ==
    Row("CS 213", "LEC", "101", "2025-01-06", "", "10:00 AM", "10:50 AM", "MWF", "", "")
RowNoStartTime ==
    Row("CS 221", "LEC", "102", "2025-01-06", "2025-01-10", "noon", "1 PM", "MWF", "", "")

\* a loaded file is a run of at most MaxRows consecutive records of this
\* sheet
SampleSheet ==
    <<RowXyz, RowMWF, RowMWF, RowNoDate, RowBraces, RowNoTime, RowOneDay,
      RowOneDay, RowBackwards, RowNoEndDate, RowBraces, RowNoStartTime, RowMWF,
      RowBackwards>>
MaxRows == 3
RowSeqs ==
    {SubSeq(SampleSheet, a, b) :
        a \in 1..Len(SampleSheet),
        b \in 0..Len(SampleSheet)} \cap
    UNION {[1..n -> {SampleSheet[i] : i \in 1..Len(SampleSheet)}] : n \in 0..MaxRows}

Templates == {"{Course} {Component} {Section}", "{Section}:  {Course}"}
SelectableKeys == {"startDateField", "endDateField", "startTimeField",
                   "endTimeField", "daysField", "titleField"}
AppHosts == {h \in Hosts : h.gapDays = {}}
\* what a run reads from Math.random (one text per event, repeated in turn)
\* and from new Date() (as a UTC reading)
Environments ==
    {[uids |-> <<"k3x9q2w8">>, now |-> [day |-> DaysFromCivil(2025, 1, 2), sec |-> 12307]],
     [uids |-> <<"0a", "zz91f", "">>,
      now |-> [day |-> DaysFromCivil(2024, 12, 31), sec |-> 86399]]}

AppIdle ==
    /\ rows = <<>> /\ mapped = GuessedMapping
    /\ titleTemplate = "{Course} {Component} {Section}"
    /\ calendarName = "Workday Schedule" /\ timezone = "America/Vancouver"
    /\ error = "" /\ info = "" /\ downloads = <<>> /\ lastRun = NoRun

FoldIdle == foldText = "" /\ foldOut = NotRun
ExpIdle == expArgs = Null /\ expOut = NotRun
DaysIdle == daysText = "" /\ daysOut = NotRun
TimeIdle == timeText = "" /\ timeOut = NotRun
EscIdle == escText = "" /\ escOut = NotRun

FoldCall ==
    /\ foldOut = NotRun
    /\ foldOut' = Ran(foldLines(foldText))
    /\ UNCHANGED <<foldText, escVars, daysVars, timeVars, host, expVars, appVars>>

EscapeCall ==
    /\ escOut = NotRun
    /\ escOut' = Ran(icsEscape(escText))
    /\ UNCHANGED <<escText, foldVars, daysVars, timeVars, host, expVars, appVars>>

DaysCall ==
    /\ daysOut = NotRun
    /\ daysOut' = Ran(parseDays(daysText))
    /\ UNCHANGED <<daysText, foldVars, escVars, timeVars, host, expVars, appVars>>

ExpandCall ==
    /\ expOut = NotRun
    /\ expOut' = Ran(expandOccurrences(expArgs.startDate, expArgs.endDate,
                                       expArgs.daySet))
    /\ UNCHANGED <<expArgs, host, foldVars, escVars, daysVars, timeVars, appVars>>

HostIdle == host = CHOOSE h \in Hosts : h.name = "UTC"

pureVars == <<foldVars, escVars, daysVars, timeVars, expVars>>

\* the onChange of a select of mappingControls
SelectColumn(key, column) ==
    /\ ~lastRun.ran
    /\ mapped[key] # column
    /\ mapped' = [mapped EXCEPT ![key] = column]
    /\ UNCHANGED <<rows, titleTemplate, calendarName, timezone, error, info,
                   downloads, lastRun, host, pureVars>>

\* a click on "Generate .ics"
Generate ==
    /\ ~lastRun.ran
    /\ \E env \in Environments : handleGenerate(env.uids, env.now)
    /\ UNCHANGED <<rows, mapped, titleTemplate, calendarName, timezone, host,
                   pureVars>>

InitFold ==
    /\ foldText \in FoldInputs /\ foldOut = NotRun
    /\ EscIdle /\ DaysIdle /\ TimeIdle /\ HostIdle /\ ExpIdle /\ AppIdle
SpecFold == InitFold /\ [][FoldCall]_vars

InitEscape ==
    /\ escText \in EscInputs /\ escOut = NotRun
    /\ FoldIdle /\ DaysIdle /\ TimeIdle /\ HostIdle /\ ExpIdle /\ AppIdle
SpecEscape == InitEscape /\ [][EscapeCall]_vars

InitDays ==
    /\ daysText \in DaysInputs /\ daysOut = NotRun
    /\ FoldIdle /\ EscIdle /\ TimeIdle /\ HostIdle /\ ExpIdle /\ AppIdle
SpecDays == InitDays /\ [][DaysCall]_vars

\* the texts of a time cell: an hour up to MaxHour, with or without minutes,
\* seconds and an AM/PM suffix, and some texts that are no time
MaxHour == 25
TimeMinutes == {"", ":00", ":30", ":59", ":60", ":75", ":5"}
TimeSeconds == {"", ":00", ":59", ":60"}
TimeSuffixes == {"", " AM", "PM", " pm", "am "}
TimeExamples ==
    {"", "TBA", "noon", "AM", "8:", "8 :30", "123", "8:00:15:10", "08:05",
     " 7:75pm ", "8:00:15  PM", "8AMX", "-1:00"}
TimeInputs ==
    TimeExamples \cup
    {NumberText(h) \o m \o sec \o x :
        h \in 0..MaxHour, m \in TimeMinutes, sec \in TimeSeconds, x \in TimeSuffixes}

TimeCall ==
    /\ timeOut = NotRun
    /\ timeOut' = Ran(parseTime(timeText))
    /\ UNCHANGED <<timeText, foldVars, escVars, daysVars, host, expVars, appVars>>

InitTime ==
    /\ timeText \in TimeInputs /\ timeOut = NotRun
    /\ FoldIdle /\ EscIdle /\ DaysIdle /\ HostIdle /\ ExpIdle /\ AppIdle
SpecTime == InitTime /\ [][TimeCall]_vars

InitExpand ==
    /\ host \in Hosts
    /\ expArgs \in ExpandInputs /\ expOut = NotRun
    /\ FoldIdle /\ EscIdle /\ DaysIdle /\ TimeIdle /\ AppIdle
SpecExpand == InitExpand /\ [][ExpandCall]_vars

\* a file is loaded and the guessed mapping applied; the columns are then
\* re-mapped and the calendar generated
Init ==
    /\ host \in AppHosts
    /\ rows \in RowSeqs
    /\ mapped = GuessedMapping
    /\ titleTemplate \in Templates
    /\ calendarName = "Workday Schedule" /\ timezone = "America/Vancouver"
    /\ error = "" /\ info = "" /\ downloads = <<>> /\ lastRun = NoRun
    /\ FoldIdle /\ EscIdle /\ DaysIdle /\ TimeIdle /\ ExpIdle

Next ==
    \/ \E key \in SelectableKeys : SelectColumn(key, "")
    \/ \E key \in SelectableKeys : SelectColumn(key, GuessedMapping[key])
    \/ Generate

Spec == Init /\ [][Next]_vars

(***************************************************************************)
(* Properties of foldLines.                                                *)
(***************************************************************************)
PhysicalLines == Split(foldOut.val, "\n")
HasNewline(s) == IndexFrom(s, "\n", 0) # -1

\* C6: no physical line of the output of foldLines is longer than 75
\* characters, the leading space of a continuation line included.
FoldWithinLimit ==
    foldOut.run =>
        \A i \in 1..Len(PhysicalLines) : Len(PhysicalLines[i]) <= FoldWidth

\* one leading space, when there is one, is taken off a continuation line
StripOneSpace(ln) == IF CharAt(ln, 0) = " " THEN SliceFrom(ln, 1) ELSE ln
RECURSIVE UnfoldRest(_)
UnfoldRest(lines) ==
    IF Len(lines) = 0 THEN ""
    ELSE StripOneSpace(Head(lines)) \o UnfoldRest(Tail(lines))
Unfold(lines) == Head(lines) \o UnfoldRest(Tail(lines))

\* C7: for a logical line without a newline, stripping one leading space
\* from every physical line after the first and concatenating gives the
\* original line back.
FoldRoundTrip ==
    (foldOut.run /\ ~HasNewline(foldText)) => Unfold(PhysicalLines) = foldText

\* a folded line of three physical lines whose chunks after the first both
\* begin with a space of their own
FoldRoundTripWitness ==
    /\ foldOut.run
    /\ ~HasNewline(foldText)
    /\ Len(PhysicalLines) = 3
    /\ CharAt(foldText, FoldWidth) = " "
    /\ Slice(PhysicalLines[2], 0, 2) = "  "
    /\ Slice(PhysicalLines[3], 0, 2) = "  "

(***************************************************************************)
(* Properties of icsEscape.                                                *)
(***************************************************************************)
Unescaped == [c \in {"\\", "n", ",", ";"} |-> IF c = "n" THEN "\n" ELSE c]

RECURSIVE Unescape(_, _)
\* left-to-right inverse of the escaping rule, from index i on
Unescape(s, i) ==
    IF i >= Len(s) THEN ""
    ELSE IF CharAt(s, i) = "\\" /\ CharAt(s, i + 1) \in DOMAIN Unescaped
         THEN Unescaped[CharAt(s, i + 1)] \o Unescape(s, i + 2)
         ELSE CharAt(s, i) \o Unescape(s, i + 1)

RECURSIVE WellEscaped(_, _)
\* read left to right, s is made of escape pairs and of characters that are
\* neither a backslash, a newline, a comma nor a semicolon
WellEscaped(s, i) ==
    IF i >= Len(s) THEN TRUE
    ELSE IF CharAt(s, i) = "\\"
         THEN CharAt(s, i + 1) \in DOMAIN Unescaped /\ WellEscaped(s, i + 2)
         ELSE CharAt(s, i) \notin {"\n", ",", ";"} /\ WellEscaped(s, i + 1)

\* C8: un-escaping the escaped text gives the original text back, and the
\* escaped text holds no raw newline and no unescaped comma or semicolon.
EscapeRoundTrip ==
    escOut.run =>
        /\ Unescape(escOut.val, 0) = escText
        /\ WellEscaped(escOut.val, 0)

\* a text with a backslash right before the letter n, a real newline and a
\* comma has been escaped
EscapeRoundTripWitness ==
    /\ escOut.run
    /\ escText = "\\n\n,"
    /\ escOut.val = "\\\\n\\n\\,"

(***************************************************************************)
(* Properties of parseDays.                                                *)
(***************************************************************************)
\* C2: "MWF", "mwf", "M W F", "Mon Wed Fri" and "Monday, Wednesday, Friday"
\* all give {Monday, Wednesday, Friday}; "TuTh" and "T R" both give
\* {Tuesday, Thursday}.
DaysFormsAgree ==
    daysOut.run =>
        /\ daysText \in {"MWF", "mwf", "M W F", "Mon Wed Fri",
                          "Monday, Wednesday, Friday"} => daysOut.val = {1, 3, 5}
        /\ daysText \in {"TuTh", "T R"} => daysOut.val = {2, 4}

(***************************************************************************)
(* Properties of expandOccurrences.                                        *)
(***************************************************************************)
\* the calendar days of the Dates of a sequence
CalendarDays(dates) == [i \in 1..Len(dates) |-> dates[i].day]

\* C1: the expansion is strictly ascending, holds only days of
\* [start, end] whose weekday is in the set, holds every such day, and is
\* empty when start is after end or the set is empty.
ExpandExact ==
    expOut.run =>
        LET out == CalendarDays(expOut.val)
            first == expArgs.startDate.day
            last == expArgs.endDate.day
            wanted == {d \in first..last : (d + 4) % 7 \in expArgs.daySet}
        IN  /\ \A i \in 1..(Len(out) - 1) : out[i] < out[i + 1]
            /\ \A i \in 1..Len(out) : out[i] \in wanted
            /\ \A d \in wanted : \E i \in 1..Len(out) : out[i] = d
            /\ (first > last \/ expArgs.daySet = {}) => out = <<>>

(***************************************************************************)
(* Properties of handleGenerate.                                           *)
(***************************************************************************)
RequiredKeys == {"startDateField", "endDateField", "startTimeField",
                 "endTimeField", "daysField"}

\* every required key is mapped to a column
MappingComplete == \A k \in RequiredKeys : mapped[k] # ""

\* the days 2025-01-06, 01-08, 01-10, 01-13, 01-15 and 01-17
SixDays ==
    <<DaysFromCivil(2025, 1, 6), DaysFromCivil(2025, 1, 8), DaysFromCivil(2025, 1, 10),
      DaysFromCivil(2025, 1, 13), DaysFromCivil(2025, 1, 15), DaysFromCivil(2025, 1, 17)>>

\* C3: in every host time zone, the single record 2025-01-06..2025-01-17,
\* 10:00 AM-10:50 AM, MWF, CS 101 / LEC / 001 with no title column mapped
\* gives exactly six events titled "CS 101 LEC 001" on the six days above, in
\* that order, each from 10:00 to 10:50 local time.
EndToEndSixEvents ==
    (/\ lastRun.ran /\ rows = <<RowMWF>> /\ MappingComplete
     /\ mapped["titleField"] = ""
     /\ titleTemplate = "{Course} {Component} {Section}")
        => /\ Len(lastRun.events) = 6
           /\ \A i \in 1..6 :
                /\ lastRun.events[i].summary = "CS 101 LEC 001"
                /\ lastRun.events[i].dtStart = [day |-> SixDays[i], sec |-> 10 * 3600]
                /\ lastRun.events[i].dtEnd =
                       [day |-> SixDays[i], sec |-> 10 * 3600 + 50 * 60]

\* whether text begins with prefix
StartsWith(text, prefix) == Slice(text, 0, Len(prefix)) = prefix

\* C4: a document is handed out only if the five required keys are set and
\* at least one occurrence was generated; with a required key unset the run
\* ends in an error before any row is parsed; with no occurrence it ends in
\* an error and hands out no document.
FatalErrors ==
    lastRun.ran =>
        /\ downloads # <<>> => (MappingComplete /\ Len(lastRun.events) >= 1)
        /\ ~MappingComplete =>
               /\ lastRun.parsed = 0 /\ lastRun.errors = <<>>
               /\ StartsWith(error, "Missing required mapping: ")
               /\ downloads = <<>> /\ info = ""
        /\ (MappingComplete /\ lastRun.events = <<>>) =>
               /\ error = "No events generated. Check mappings and data."
               /\ downloads = <<>> /\ info = ""

\* a run with the end time unmapped over a record that would parse
FatalErrorsWitness ==
    /\ lastRun.ran /\ rows = <<RowMWF>>
    /\ mapped["endTimeField"] = ""
    /\ \A k \in RequiredKeys \ {"endTimeField"} : mapped[k] # ""
    /\ error = "Missing required mapping: End time"
    /\ lastRun.parsed = 0 /\ downloads = <<>>

\* whether one of the five values of the row does not parse
RowUnparsed(row, m) ==
    \/ parseDate(Cell(row, m["startDateField"])) = Null
    \/ parseDate(Cell(row, m["endDateField"])) = Null
    \/ parseTime(Cell(row, m["startTimeField"])) = Null
    \/ parseTime(Cell(row, m["endTimeField"])) = Null
    \/ parseDays(Cell(row, m["daysField"])) = {}

\* the rows of rs that parse, in order
RECURSIVE ParsingRows(_, _, _)
ParsingRows(rs, m, i) ==
    IF i > Len(rs) THEN <<>>
    ELSE (IF RowUnparsed(rs[i], m) THEN <<>> ELSE <<rs[i]>>) \o ParsingRows(rs, m, i + 1)

\* C5: with a complete mapping every row is processed; a row of which a
\* date, a time or the weekday set does not parse gives no event and exactly
\* one failure entry with its 1-based position, no other row gives a failure
\* entry, and the events are those of the run over the parsing rows alone.
RowFailuresIsolated ==
    (lastRun.ran /\ MappingComplete) =>
        LET failing == {i \in 1..Len(rows) : RowUnparsed(rows[i], mapped)}
            errors == lastRun.errors
        IN  /\ lastRun.parsed = Len(rows)
            /\ \A i \in failing :
                 /\ Cardinality({k \in 1..Len(errors) : errors[k].idx = i}) = 1
                 /\ \A k \in 1..Len(lastRun.rowOf) : lastRun.rowOf[k] # i
            /\ \A k \in 1..Len(errors) : errors[k].idx \in failing
            /\ lastRun.events =
                   ForEachRow(ParsingRows(rows, mapped, 1), mapped, titleTemplate, 0).events
            /\ lastRun.events # <<>> => (downloads # <<>> /\ error = "")

\* the record with days "Xyz" followed by a valid record: one failure entry
\* for the first, a document with the events of the second
RowFailuresIsolatedWitness ==
    /\ lastRun.ran /\ MappingComplete
    /\ rows = <<RowXyz, RowMWF>>
    /\ lastRun.errors = <<RowError(0)>>
    /\ Len(lastRun.events) >= 5
    /\ \A k \in 1..Len(lastRun.events) : lastRun.rowOf[k] = 2
    /\ Len(downloads) = 1 /\ error = ""

\* the k-th smallest member of a set of numbers
NthOf(S, k) == CHOOSE x \in S : Cardinality({y \in S : y < x}) = k - 1

HeaderLines ==
    <<"BEGIN:VCALENDAR", "VERSION:2.0", "CALSCALE:GREGORIAN",
      "PRODID:-//GistTools//Workday Excel to iCal//EN",
      "X-WR-CALNAME:Workday Schedule", "X-WR-TIMEZONE:America/Vancouver">>

\* the lines L of a document are the header, one block BEGIN:VEVENT ..
\* END:VEVENT for every event, and END:VCALENDAR; block k, lying between
\* lines b and e, carries the start, the end and the summary of event k
BlockOf(L, ev, b, e) ==
    /\ b + 5 < e
    /\ L[b + 3] = "DTSTART:" \o icsDateTimeLocal(ev.dtStart)
    /\ L[b + 4] = "DTEND:" \o icsDateTimeLocal(ev.dtEnd)
    /\ StartsWith(L[b + 5], "SUMMARY:")
    /\ Unescape(SliceFrom(L[b + 5], 8), 0) = ev.summary
    /\ \A i \in (b + 1)..(e - 1) : L[i] \notin {"BEGIN:VEVENT", "END:VEVENT"}

DocumentShape(L, events, begins, ends) ==
    /\ Cardinality(begins) = Len(events)
    /\ Cardinality(ends) = Len(events)
    /\ SubSeq(L, 1, Len(HeaderLines)) = HeaderLines
    /\ NthOf(begins, 1) = Len(HeaderLines) + 1
    /\ \A k \in 1..Len(events) :
         /\ BlockOf(L, events[k], NthOf(begins, k), NthOf(ends, k))
         /\ k < Len(events) => NthOf(begins, k + 1) = NthOf(ends, k) + 1
    /\ NthOf(ends, Len(events)) = Len(L) - 2
    /\ L[Len(L) - 1] = "END:VCALENDAR"
    /\ L[Len(L)] = ""

\* the occurrences of every parsing row, one row after the other
RECURSIVE OccurrencesFrom(_, _, _)
OccurrencesFrom(rs, m, i) ==
    IF i > Len(rs) THEN <<>>
    ELSE (IF RowUnparsed(rs[i], m) THEN <<>>
          ELSE LET occ == expandOccurrences(parseDate(Cell(rs[i], m["startDateField"])),
                                            parseDate(Cell(rs[i], m["endDateField"])),
                                            parseDays(Cell(rs[i], m["daysField"])))
               IN  [k \in 1..Len(occ) |-> [row |-> i, day |-> occ[k].day]])
             \o OccurrencesFrom(rs, m, i + 1)

\* C9: the document is the header, one event block for every generated
\* occurrence, and END:VCALENDAR; the blocks are the occurrences of the
\* expansions, in row order and within a row in ascending date order, none
\* dropped and none written twice.
DocumentOrder ==
    downloads # <<>> =>
        LET L == Split(downloads[1].text, "\n")
            events == lastRun.events
            occ == OccurrencesFrom(rows, mapped, 1)
        IN  /\ DocumentShape(L, events, {i \in 1..Len(L) : L[i] = "BEGIN:VEVENT"},
                             {i \in 1..Len(L) : L[i] = "END:VEVENT"})
            /\ Len(events) = Len(occ)
            /\ \A k \in 1..Len(events) :
                 /\ lastRun.rowOf[k] = occ[k].row
                 /\ events[k].dtStart.day = occ[k].day
            /\ \A j, k \in 1..Len(events) :
                 j < k => \/ lastRun.rowOf[j] < lastRun.rowOf[k]
                          \/ /\ lastRun.rowOf[j] = lastRun.rowOf[k]
                             /\ events[j].dtStart.day < events[k].dtStart.day

\* a document for two identical records: two identical occurrences
DocumentOrderWitness ==
    /\ Len(downloads) = 1
    /\ rows = <<RowOneDay, RowOneDay>>
    /\ Len(lastRun.events) = 2
    /\ lastRun.events[1] = lastRun.events[2]
    /\ lastRun.rowOf = <<1, 2>>

\* the trimmed text the template token at index i of the template stands
\* for, with the token; a token "" when there is none
TokenAt(template, row, m, i) ==
    IF Slice(template, i, i + 8) = "{Course}"
    THEN [token |-> "{Course}", by |-> Trim(Cell(row, m["courseField"]))]
    ELSE IF Slice(template, i, i + 11) = "{Component}"
    THEN [token |-> "{Component}", by |-> Trim(Cell(row, m["componentField"]))]
    ELSE IF Slice(template, i, i + 9) = "{Section}"
    THEN [token |-> "{Section}", by |-> Trim(Cell(row, m["sectionField"]))]
    ELSE [token |-> "", by |-> ""]

\* the template from index i on with every token replaced in one pass, so
\* that inserted text is never looked at again
RECURSIVE SubstituteOnce(_, _, _, _)
SubstituteOnce(template, row, m, i) ==
    IF i >= Len(template) THEN ""
    ELSE LET t == TokenAt(template, row, m, i)
         IN  IF t.token # "" THEN t.by \o SubstituteOnce(template, row, m, i + Len(t.token))
             ELSE CharAt(template, i) \o SubstituteOnce(template, row, m, i + 1)

\* C10: with no title column mapped, the title of every event is the
\* template with the tokens {Course}, {Component} and {Section} replaced by
\* the trimmed cells, inserted text never being rewritten by another
\* substitution, then whitespace runs collapsed and the ends trimmed.
TitleSubstitutedOnce ==
    (lastRun.ran /\ MappingComplete /\ mapped["titleField"] = "") =>
        \A k \in 1..Len(lastRun.events) :
            lastRun.events[k].summary =
                Trim(CollapseRuns(SubstituteOnce(titleTemplate, rows[lastRun.rowOf[k]],
                                                 mapped, 0),
                                  Whitespace))

(***************************************************************************)
(* Properties of parseTime.                                                *)
(***************************************************************************)
\* C11: every value parseTime returns as parsed has its hour in 0..23, its
\* minute in 0..59 and its second in 0..59; a text that denotes no such
\* time is reported as unparseable (null).
TimeOfDayValid ==
    (timeOut.run /\ timeOut.val # Null) =>
        /\ timeOut.val.h \in 0..23
        /\ timeOut.val.min \in 0..59
        /\ timeOut.val.sec \in 0..59

\* C12: a recognized written form of one weekday (full name, 3-letter
\* abbreviation or two-letter token), alone as the whole text and in any
\* letter case, gives the set holding exactly that weekday.
SingleWeekdayForms ==
    daysOut.run =>
        \A d \in 1..7 :
            toUpperCase(daysText) \in WeekdayForms[d] => daysOut.val = {d % 7}

====
